---- MODULE Spec2Model ----
(***************************************************************************)
(* A model of the dice expression parser and evaluator of dice.c: the      *)
(* command-line driver parses one expression string into a tree, executes  *)
(* it (drawing dice one draw per step) and frees the tree.                 *)
(*                                                                         *)
(* Strings are sequences of one-character strings; a char* is a record     *)
(* [buf, off] into a NUL-terminated buffer: "inp" is the expression        *)
(* string, "q" is the string literal "?" that find_first_free_opt returns  *)
(* on mismatched parentheses.                                              *)
(***************************************************************************)
EXTENDS Integers, Sequences, FiniteSets, TLC

VARIABLES input, pc, st, tree, result, rollVals, cur, i, rolls, chosen, roll,
          rollTotal, inner, drawn, ndraws

vars == <<input, pc, st, tree, result, rollVals, cur, i, rolls, chosen, roll,
          rollTotal, inner, drawn, ndraws>>

(***************************************************************************)
(* Bounds of the model.                                                    *)
(***************************************************************************)
MaxLen == 4        \* longest string of the exhaustive input family
MaxDigit == 4      \* largest constant of the arithmetic input family
MaxCount == 3      \* largest die count of the roll input family
MaxSides == 3      \* largest die sides of the roll input family
MaxModConst == 3   \* largest modifier constant of the roll input family
MaxRaw == 5        \* largest raw value get_next_random returns
MaxDraws == 5      \* draws of one roll after which no further draw is explored
MaxFailAt == 1     \* latest malloc call (counted from 0) explored as a failing one
MaxTail == 2       \* longest text after the modifier letter of the modifier input family

(***************************************************************************)
(* Characters and the C string functions the parser uses.                  *)
(***************************************************************************)
NUL == "NUL"
Digits == <<"0", "1", "2", "3", "4", "5", "6", "7", "8", "9">>
DigitChars == {Digits[n] : n \in 1..10}
DigitVal(c) == (CHOOSE n \in 1..10 : Digits[n] = c) - 1
ModChars == {"c", "b", "v", "w"}

Min(a, b) == IF a < b THEN a ELSE b
Range(s) == {s[n] : n \in 1..Len(s)}

\* The bytes of a buffer before its terminating NUL.
Mem(buf) == IF buf = "inp" THEN input ELSE <<"?">>

NULLPTR == [buf |-> "null", off |-> 0]
Ptr(buf, off) == [buf |-> buf, off |-> off]
PtrAdd(p, n) == [p EXCEPT !.off = @ + n]

\* The C string at p: the characters from p up to the NUL.
Str(p) == SubSeq(Mem(p.buf), p.off + 1, Len(Mem(p.buf)))

\* *p, for p inside its buffer.
CharAt(p) == IF p.off < Len(Mem(p.buf)) THEN Mem(p.buf)[p.off + 1] ELSE NUL

\* p - q as an int. Within one buffer this is the offset difference; between
\* the "?" literal and the input it is whatever the two addresses make it:
\* e.addr is the address of the literal relative to the input buffer.
PtrDiff(p, q, e) ==
  LET Addr(x) == IF x.buf = "q" THEN e.addr + x.off ELSE x.off
  IN Addr(p) - Addr(q)

\* strpbrk/strchr: offset of the first character of s in set, -1 for NULL.
RECURSIVE strpbrkFrom(_, _, _)
strpbrkFrom(s, set, n) ==
  IF n >= Len(s) THEN -1
  ELSE IF s[n + 1] \in set THEN n
  ELSE strpbrkFrom(s, set, n + 1)

strpbrk(s, set) == strpbrkFrom(s, set, 0)
strchr(s, c) == strpbrkFrom(s, {c}, 0)

\* strspn: length of the initial segment of s made of characters of set.
RECURSIVE strspn(_, _)
strspn(s, set) ==
  IF s = <<>> \/ Head(s) \notin set THEN 0 ELSE 1 + strspn(Tail(s), set)

\* strncpy(buf, s, n); buf[n] = '\0': the string left in buf, for n >= 0.
strncpy(s, n) == SubSeq(s, 1, Min(n, Len(s)))

\* atoi: optional sign, then the leading digits (0 when there are none).
RECURSIVE atoiDigits(_, _)
atoiDigits(s, acc) ==
  IF s = <<>> \/ Head(s) \notin DigitChars THEN acc
  ELSE atoiDigits(Tail(s), acc * 10 + DigitVal(Head(s)))

atoi(s) ==
  IF s # <<>> /\ Head(s) = "-" THEN 0 - atoiDigits(Tail(s), 0)
  ELSE IF s # <<>> /\ Head(s) = "+" THEN atoiDigits(Tail(s), 0)
  ELSE atoiDigits(s, 0)

(***************************************************************************)
(* Tree nodes and the parse status threaded through the parser.            *)
(***************************************************************************)
NULL == [k |-> "null"]
IsNull(x) == x.k = "null"

\* What the build and the run decide: the address of "?" relative to the
\* input (addr); what an access outside an object does (fault): the
\* process dies ("crash"), or it goes on and a read past the input's NUL
\* gives a ')' ("rparen") or another byte ("other"); and the malloc calls
\* that fail (fail, a set of call numbers counted from 0).
Env(addr, fault, fail) == [addr |-> addr, fault |-> fault, fail |-> fail]

DefaultEnv == Env(0, "other", {})

\* live: allocated and not freed nodes; nalloc: malloc calls so far; errs:
\* the errors printed; crash: the process died; bad: a computed substring
\* length was negative or past its span; ub: undefined behaviour was reached.
StartStatus(e) ==
  [env |-> e, live |-> 0, nalloc |-> 0, errs |-> {}, crash |-> FALSE,
   bad |-> FALSE, ub |-> FALSE]

Ret(s, r) == [st |-> s, ret |-> r]

\* The messages are named by their kind: "EmptyOperand" is "Missing Object.",
\* "MismatchedParentheses" "Mismatched parentheses.", "MissingRoll" "Missing
\* Roll.", "MissingDelimiter" "Garbled roll (no 'd' delimiter).",
\* "EmptyConstant" "Missing constant.", "InvalidConstant" "Invalid
\* constant.", "MissingModifier" "Missing Modifier.", "UnknownModifier"
\* "Invalid Modifier Character.", "MissingModifierConstant" "Missing Modifier
\* Constant." and "AllocationFailure" "Out of memory.".
print_error(s, message) == [s EXCEPT !.errs = @ \cup {message}]

malloc_fails(s) == s.nalloc \in s.env.fail
malloc(s) ==
  IF malloc_fails(s) THEN [s EXCEPT !.nalloc = @ + 1]
  ELSE [s EXCEPT !.nalloc = @ + 1, !.live = @ + 1]

free(s) == [s EXCEPT !.live = @ - 1]

\* A computed length n for a span of len characters is recorded as bad when
\* it is negative or longer than the span.
NoteLen(s, n, len) ==
  IF n < 0 \/ n > len THEN [s EXCEPT !.bad = TRUE] ELSE s

\* STACK_ALLOC of n elements. A negative n is undefined; a size past the
\* whole input can only come from an undefined pointer difference and may be
\* too large for the stack.
StackAlloc(s, n) ==
  IF n < 0 THEN
    [s EXCEPT !.ub = TRUE, !.crash = @ \/ s.env.fault = "crash"]
  ELSE IF n > Len(input) + 1 THEN
    [s EXCEPT !.ub = TRUE, !.crash = @ \/ s.env.fault = "crash"]
  ELSE s

(***************************************************************************)
(* Freeing the tree.                                                       *)
(***************************************************************************)
\* The modifier is never released.
free_modifier_node_leak(s, mod) == s

free_modifier_node(s, mod) == IF ~IsNull(mod) THEN free(s) ELSE s

free_roll_node(s, r) ==
  IF ~IsNull(r) THEN free(free_modifier_node(s, r.rollMod)) ELSE s

RECURSIVE free_obj_node(_, _), free_expr_node(_, _)
free_obj_node(s, obj) ==
  IF ~IsNull(obj)
  THEN free(free_expr_node(free_roll_node(s, obj.roll), obj.subList))
  ELSE s

free_expr_node(s, list) ==
  IF ~IsNull(list)
  THEN free(free_expr_node(free_expr_node(free_obj_node(s, list.obj),
                                          list.lhList), list.rhList))
  ELSE s

(***************************************************************************)
(* The scanner.                                                            *)
(***************************************************************************)
\* The loop of find_first_free_opt over the string str: the offset of the
\* first operator at depth 0, -1 when there is none, -2 on a mismatch.
RECURSIVE scanLoop(_, _, _, _, _)
scanLoop(str, len, opchars, n, parensDepth) ==
  LET scan == IF n > Len(str) THEN -1
              ELSE LET k == strpbrk(SubSeq(str, n + 1, Len(str)), opchars)
                   IN IF k = -1 THEN -1 ELSE n + k
  IN IF scan = -1 \/ scan >= len THEN (IF parensDepth # 0 THEN -2 ELSE -1)
     ELSE IF str[scan + 1] = "(" THEN
       scanLoop(str, len, opchars, scan + 1, parensDepth + 1)
     ELSE IF str[scan + 1] = ")" THEN
       IF parensDepth - 1 < 0 THEN -2
       ELSE scanLoop(str, len, opchars, scan + 1, parensDepth - 1)
     ELSE IF parensDepth = 0 THEN scan
     ELSE scanLoop(str, len, opchars, scan + 1, parensDepth)

\* Returns the operator's position, NULLPTR, or (after printing the error)
\* a pointer to the string literal "?".
find_first_free_opt(s, inp, len, opchars) ==
  LET n == scanLoop(Str(inp), len, opchars, 0, 0)
  IN IF n = -2 THEN Ret(print_error(s, "MismatchedParentheses"), Ptr("q", 0))
     ELSE IF n = -1 THEN Ret(s, NULLPTR)
     ELSE Ret(s, PtrAdd(inp, n))

\* A typo in the switch: '+' and '-' give each other's operation.
parse_operator_swapped(c) ==
  CASE c = "+" -> "MINUS"
    [] c = "-" -> "PLUS"
    [] c = "*" -> "TIMES"
    [] c = "/" -> "DIVIDE"
    [] OTHER -> "NOOP"

parse_operator(c) ==
  CASE c = "+" -> "PLUS"
    [] c = "-" -> "MINUS"
    [] c = "*" -> "TIMES"
    [] c = "/" -> "DIVIDE"
    [] OTHER -> "NOOP"

(***************************************************************************)
(* The parser.                                                             *)
(***************************************************************************)
ModifierType(c) ==
  CASE c = "c" -> "CHOOSE_HIGH"
    [] c = "b" -> "REROLL_BELOW"
    [] c = "v" -> "KEEP_AND_REROLL_ABOVE"
    [] c = "w" -> "CHOOSE_LOW"
    [] OTHER -> "NONE"

parse_modifier(s, inp, len) ==
  IF s.crash THEN Ret(s, NULL)
  ELSE IF len <= 0 THEN Ret(print_error(s, "MissingModifier"), NULL)
  ELSE IF ModifierType(CharAt(inp)) = "NONE" THEN
    Ret(print_error(s, "UnknownModifier"), NULL)
  ELSE IF len < 2 THEN Ret(print_error(s, "MissingModifierConstant"), NULL)
  ELSE
    LET s1 == StackAlloc(s, len)
        constant == strncpy(Str(PtrAdd(inp, 1)), len - 1)
        value == atoi(constant)
    IN IF s1.crash THEN Ret(s1, NULL)
       ELSE IF malloc_fails(s1) THEN
         Ret(print_error(malloc(s1), "AllocationFailure"), NULL)
       ELSE Ret(malloc(s1), [k |-> "mod", type |-> ModifierType(CharAt(inp)),
                             constant |-> value])

\* parse_roll from the computation of a_chars on: d is the offset of the 'd',
\* mod the parsed modifier or NULL.
parse_roll_consts(s, inp, len, d, mod_chars, mod) ==
  LET a_chars == d
      b_chars == len - (d + 1 + mod_chars)
      s1 == NoteLen(NoteLen(s, a_chars, len), b_chars, len)
      s2 == StackAlloc(StackAlloc(s1, a_chars + 1), b_chars + 1)
      constA == strncpy(Str(inp), a_chars)
      \* a negative b_chars is a huge size_t: a build that survives the copy
      \* has copied the string up to its NUL
      constB == IF b_chars < 0 THEN Str(PtrAdd(inp, d + 1))
                ELSE strncpy(Str(PtrAdd(inp, d + 1)), b_chars)
      a_char_len == Len(constA)
      b_char_len == Len(constB)
  IN IF s2.crash THEN Ret(s2, NULL)
     ELSE IF a_char_len = 0 \/ b_char_len = 0 THEN
       Ret(free_modifier_node(print_error(s2, "EmptyConstant"), mod), NULL)
     ELSE IF strspn(constA, DigitChars) # a_char_len
             \/ strspn(constB, DigitChars) # b_char_len THEN
       Ret(free_modifier_node(print_error(s2, "InvalidConstant"), mod), NULL)
     ELSE IF malloc_fails(s2) THEN
       Ret(print_error(free_modifier_node(malloc(s2), mod), "AllocationFailure"),
           NULL)
     ELSE Ret(malloc(s2), [k |-> "roll", dieCount |-> atoi(constA),
                           dieSides |-> atoi(constB), rollMod |-> mod])

parse_roll(s, inp, len) ==
  IF s.crash THEN Ret(s, NULL)
  ELSE IF len <= 0 THEN Ret(print_error(s, "MissingRoll"), NULL)
  ELSE
    LET d == strchr(Str(inp), "d")
    IN IF d = -1 \/ d >= len THEN
         Ret(print_error(s, "MissingDelimiter"), NULL)
       ELSE
         LET m == strpbrk(Str(inp), ModChars)
             hasMod == m # -1 /\ m < len
             mod_chars == IF hasMod THEN len - m ELSE 0
             pm == IF hasMod THEN parse_modifier(s, PtrAdd(inp, m), mod_chars)
                   ELSE Ret(s, NULL)
         IN IF hasMod /\ IsNull(pm.ret) THEN Ret(pm.st, NULL)
            ELSE parse_roll_consts(pm.st, inp, len, d, mod_chars, pm.ret)

ObjNode(r, constant, subList) ==
  [k |-> "obj", roll |-> r, constant |-> constant, subList |-> subList]

ExprList(lhList, obj, opt, rhList) ==
  [k |-> "expr", lhList |-> lhList, obj |-> obj, opt |-> opt, rhList |-> rhList]

\* inp[len-1] in parse_obj: past the NUL of the input the read is outside the
\* string, and it faults or gives whatever byte is there.
LastChar(s, inp, len) ==
  IF inp.off + len - 1 <= Len(Mem(inp.buf)) THEN CharAt(PtrAdd(inp, len - 1))
  ELSE IF s.env.fault = "rparen" THEN ")" ELSE "x"

LastCharStatus(s, inp, len) ==
  IF inp.off + len - 1 <= Len(Mem(inp.buf)) THEN s
  ELSE [s EXCEPT !.ub = TRUE, !.crash = s.env.fault = "crash"]

\* The level test inverted: the additive parser splits at '*' and '/'.
OpCharsSwapped(type) ==
  IF type = "M_OP" THEN {"(", ")", "+", "-"} ELSE {"(", ")", "*", "/"}

\* opchars: the characters find_first_free_opt stops at, for the level.
OpChars(type) ==
  IF type = "M_OP" THEN {"(", ")", "*", "/"} ELSE {"(", ")", "+", "-"}

\* parse_obj once the expression between the parentheses is parsed: sub is
\* the status and the tree that parse_expr returned.
parse_obj_subList(sub) ==
  IF IsNull(sub.ret) THEN Ret(sub.st, NULL)
  ELSE IF malloc_fails(sub.st) THEN
    Ret(print_error(free_expr_node(malloc(sub.st), sub.ret),
                    "AllocationFailure"), NULL)
  ELSE Ret(malloc(sub.st), ObjNode(NULL, 0, sub.ret))

\* parse_obj once the roll is parsed: r is what parse_roll returned.
parse_obj_roll(r) ==
  IF IsNull(r.ret) THEN Ret(r.st, NULL)
  ELSE IF malloc_fails(r.st) THEN
    Ret(print_error(free_roll_node(malloc(r.st), r.ret), "AllocationFailure"),
        NULL)
  ELSE Ret(malloc(r.st), ObjNode(r.ret, 0, NULL))

\* parse_expr with an operator, once both sides are parsed: l is the left
\* side's result (an obj at the multiplicative level, an expression of the
\* next level otherwise), r the right side's.
parse_expr_node(l, r, type, opt) ==
  LET obj == IF type = "M_OP" THEN l.ret ELSE NULL
      lhExpr == IF type = "M_OP" THEN NULL ELSE l.ret
      subExpr == r.ret
  IN IF r.st.crash THEN Ret(r.st, NULL)
     ELSE IF (IsNull(obj) /\ IsNull(lhExpr)) \/ opt = "NOOP"
             \/ IsNull(subExpr) THEN
       Ret(free_expr_node(free_expr_node(free_obj_node(r.st, obj), lhExpr),
                          subExpr), NULL)
     ELSE IF malloc_fails(r.st) THEN
       Ret(print_error(
             free_expr_node(free_expr_node(free_obj_node(malloc(r.st), obj),
                                           lhExpr), subExpr),
             "AllocationFailure"), NULL)
     ELSE Ret(malloc(r.st), ExprList(lhExpr, obj, opt, subExpr))

\* parse_expr without an operator, once the whole span is parsed.
parse_expr_singlet(l, type) ==
  LET obj == IF type = "M_OP" THEN l.ret ELSE NULL
      lhNode == IF type = "M_OP" THEN NULL ELSE l.ret
  IN IF IsNull(obj) /\ IsNull(lhNode) THEN Ret(l.st, NULL)
     ELSE IF malloc_fails(l.st) THEN
       Ret(print_error(free_expr_node(free_obj_node(malloc(l.st), obj),
                                      lhNode), "AllocationFailure"), NULL)
     ELSE Ret(malloc(l.st), ExprList(lhNode, obj, "NOOP", NULL))

RECURSIVE parse_expr(_, _, _, _), parse_obj(_, _, _), parse_lh(_, _, _, _),
          parse_rh(_, _, _, _), parse_expr_at(_, _, _, _, _)
parse_obj(s, inp, len) ==
  IF s.crash THEN Ret(s, NULL)
  ELSE IF len <= 0 THEN Ret(print_error(s, "EmptyOperand"), NULL)
  ELSE IF CharAt(inp) = "(" THEN
    IF LastCharStatus(s, inp, len).crash THEN
      Ret(LastCharStatus(s, inp, len), NULL)
    ELSE IF LastChar(s, inp, len) # ")" THEN
      Ret(print_error(LastCharStatus(s, inp, len), "MismatchedParentheses"),
          NULL)
    ELSE
      parse_obj_subList(
        parse_expr(NoteLen(LastCharStatus(s, inp, len), len - 2, len),
                   PtrAdd(inp, 1), len - 2, "A_OP"))
  ELSE IF strspn(Str(inp), DigitChars) = len THEN
    IF malloc_fails(s) THEN Ret(print_error(malloc(s), "AllocationFailure"), NULL)
    ELSE Ret(StackAlloc(malloc(s), len + 1),
             ObjNode(NULL, atoi(strncpy(Str(inp), len)), NULL))
  ELSE parse_obj_roll(parse_roll(s, inp, len))

\* The left side: parse_obj at the multiplicative level, parse_expr of the
\* multiplicative level at the additive one.
parse_lh(s, inp, len, type) ==
  IF type = "M_OP" THEN parse_obj(s, inp, len)
  ELSE parse_expr(s, inp, len, "M_OP")

\* The right side, parsed after the left one (l) at the same level.
parse_rh(l, first_opt, right, type) ==
  parse_expr_node(l, parse_expr(l.st, PtrAdd(first_opt, 1), right, type),
                  type, parse_operator(CharAt(first_opt)))

\* parse_expr from the result f of find_first_free_opt on.
parse_expr_at(f, s, inp, len, type) ==
  IF f.ret # NULLPTR THEN
    LET left == PtrDiff(f.ret, inp, s.env)
        right == len - (left + 1)
        s1 == IF f.ret.buf # inp.buf THEN [f.st EXCEPT !.ub = TRUE] ELSE f.st
    IN parse_rh(parse_lh(NoteLen(NoteLen(s1, left, len), right, len), inp,
                         left, type),
                f.ret, right, type)
  ELSE parse_expr_singlet(parse_lh(f.st, inp, len, type), type)

parse_expr(s, inp, len, type) ==
  IF s.crash THEN Ret(s, NULL)
  ELSE IF len <= 0 THEN Ret(print_error(s, "EmptyOperand"), NULL)
  ELSE parse_expr_at(find_first_free_opt(s, inp, len, OpChars(type)), s, inp,
                     len, type)

(***************************************************************************)
(* The evaluator. Rolls are executed one draw per step by the actions      *)
(* below; vals holds the results of the rolls already executed, in the     *)
(* order execute_expr reaches them. The result is [k |-> "val", v, rest],  *)
(* [k |-> "need", roll] at the first roll not yet executed, "crash" on a   *)
(* division by zero and "exit" on exit(1).                                 *)
(***************************************************************************)
\* C's integer division truncates toward zero.
Quot(a, b) ==
  LET abs(x) == IF x < 0 THEN 0 - x ELSE x
      q == abs(a) \div abs(b)
  IN IF (a < 0) = (b < 0) THEN q ELSE 0 - q

expr_is_singlet(expr) == IsNull(expr.rhList) /\ expr.opt = "NOOP"

RECURSIVE execute_expr(_, _), execute_obj(_, _)
execute_obj(obj, vals) ==
  IF ~IsNull(obj.roll) THEN
    IF vals = <<>> THEN [k |-> "need", roll |-> obj.roll]
    ELSE [k |-> "val", v |-> Head(vals), rest |-> Tail(vals)]
  ELSE IF ~IsNull(obj.subList) THEN execute_expr(obj.subList, vals)
  ELSE [k |-> "val", v |-> obj.constant, rest |-> vals]

execute_expr(expr, vals) ==
  LET lh == IF ~IsNull(expr.lhList) THEN execute_expr(expr.lhList, vals)
            ELSE execute_obj(expr.obj, vals)
  IN IF lh.k # "val" \/ expr_is_singlet(expr) THEN lh
     ELSE
       LET rh == execute_expr(expr.rhList, lh.rest)
           lhResult == lh.v
           rhResult == rh.v
           Val(x) == [k |-> "val", v |-> x, rest |-> rh.rest]
       IN IF rh.k # "val" THEN rh
          ELSE CASE expr.opt = "PLUS" -> Val(lhResult + rhResult)
                 [] expr.opt = "MINUS" -> Val(lhResult - rhResult)
                 [] expr.opt = "TIMES" -> Val(lhResult * rhResult)
                 [] expr.opt = "DIVIDE" ->
                      IF rhResult = 0 THEN [k |-> "crash"]
                      ELSE Val(Quot(lhResult, rhResult))
                 [] OTHER -> [k |-> "exit"]

(***************************************************************************)
(* The roll executor's helpers.                                            *)
(***************************************************************************)
\* A slot of a STACK_ALLOC'ed int array that was never written.
Uninit == 0 - 1

\* What reading such a slot may give.
UninitVals == {0 - 7, 0, 7}

RECURSIVE sum_up(_, _)
sum_up(rs, count) ==
  IF count <= 0 THEN 0 ELSE sum_up(rs, count - 1) + rs[count]

\* The operands of the subtraction exchanged: ascending order.
compare_roll_high_asc(r1, r2) == r1 - r2

compare_roll_high(r1, r2) == r2 - r1
compare_roll_low(r1, r2) == r1 - r2

Comp(type, r1, r2) ==
  IF type = "CHOOSE_HIGH" THEN compare_roll_high(r1, r2)
  ELSE compare_roll_low(r1, r2)

\* qsort: the array in the order of the comparison function.
RECURSIVE insert(_, _, _), qsort(_, _)
insert(type, x, sorted) ==
  IF sorted = <<>> THEN <<x>>
  ELSE IF Comp(type, x, Head(sorted)) <= 0 THEN <<x>> \o sorted
  ELSE <<Head(sorted)>> \o insert(type, x, Tail(sorted))

qsort(rs, type) ==
  IF rs = <<>> THEN <<>> ELSE insert(type, Head(rs), qsort(Tail(rs), type))

\* (get_next_random() % dieSides) + 1
Draw(raw, dieSides) == (raw % dieSides) + 1

RollKind(r) == IF IsNull(r.rollMod) THEN "BASIC" ELSE r.rollMod.type

\* The loop tests with the comparison made strict the wrong way.
RerollCondStrict(r, rerollThresh) == r < rerollThresh
ExplodeCondStrict(r, explodeThresh) == r > explodeThresh

\* while (roll <= rerollThresh)
RerollCond(r, rerollThresh) == r <= rerollThresh

\* while (roll >= explodeThresh)
ExplodeCond(r, explodeThresh) == r >= explodeThresh

(***************************************************************************)
(* Inputs.                                                                 *)
(***************************************************************************)
Alphabet == {"2", "d", "c", "+", "*", "(", ")"}
AOps == {"+", "-"}
MOps == {"*", "/"}
Ops == AOps \cup MOps

D(n) == Digits[n + 1]

FuzzInputs == UNION {[1..n -> Alphabet] : n \in 0..MaxLen}

ArithInputs ==
  UNION {{<<D(a), o1, D(b), o2, D(c)>>,
          <<"(", D(a), o1, D(b), ")", o2, D(c)>>,
          <<D(a), o1, "(", D(b), o2, D(c), ")">>} :
         <<a, b, c, o1, o2>> \in (0..MaxDigit) \X (0..MaxDigit) \X (0..MaxDigit)
                                  \X Ops \X Ops}

RollInputs ==
  {<<D(x), "d", D(y)>> : <<x, y>> \in (0..MaxCount) \X (0..MaxSides)}
  \cup {<<D(x), "d", D(y), m, D(z)>> :
        <<x, y, m, z>> \in (0..MaxCount) \X (0..MaxSides) \X ModChars
                           \X (0..MaxModConst)}

\* "3d6" with a modifier letter and whatever follows it: digits, another
\* character, another modifier.
TailChars == {"2", "x", "b"}
ModInputs ==
  {<<"3", "d", "6", m>> \o t :
     <<m, t>> \in ModChars \X UNION {[1..n -> TailChars] : n \in 0..MaxTail}}

\* The examples of the documentation.
Examples ==
  {<<"3", "d", "6">>, <<"4", "d", "6", "c", "2">>, <<"1", "d", "6", "b", "3">>,
   <<"1", "d", "6", "v", "6">>, <<"d", "6">>, <<"3", "d">>, <<"3", "d", "x">>,
   <<"c", "2", "d", "6">>, <<"(", "1", "+", "2">>, <<"1", "+", "2", ")">>,
   <<"3", "d", "6", "c", "2", "b", "3">>}

Inputs == FuzzInputs \cup ArithInputs \cup RollInputs \cup ModInputs \cup Examples

(***************************************************************************)
(* The driver: parse_and_exec_cmdline for one argument.                    *)
(***************************************************************************)
InitWith(inputs) ==
  /\ input \in inputs
  /\ pc = "parse"
  /\ st = StartStatus(DefaultEnv)
  /\ tree = NULL
  /\ result = 0
  /\ rollVals = <<>>
  /\ cur = NULL
  /\ i = 0
  /\ rolls = <<>>
  /\ chosen = 0
  /\ roll = 0
  /\ rollTotal = 0
  /\ inner = "none"
  /\ drawn = <<>>
  /\ ndraws = 0

Init == InitWith(Inputs)

rollState == <<cur, i, rolls, chosen, roll, rollTotal, inner, drawn, ndraws>>

\* The builds and runs explored for the input. An input that reaches no
\* undefined behaviour depends on the failing malloc calls alone; for one
\* that does, the address and the fault are explored with no malloc failing.
Envs ==
  LET base == parse_expr(StartStatus(DefaultEnv), Ptr("inp", 0), Len(input),
                         "A_OP").st
  IN IF base.ub
     THEN {Env(a, o, {}) : <<a, o>> \in
             ((0 - 1)..(Len(input) + 2)) \X {"crash", "rparen", "other"}}
     ELSE {Env(0, "other", f) :
             f \in SUBSET (0..(Min(MaxFailAt + 1, base.nalloc) - 1))}

\* ExprList* tree = parse_expr(argv[i], strlen(argv[i]), A_OP);
Parse ==
  /\ pc = "parse"
  /\ \E e \in Envs :
       LET p == parse_expr(StartStatus(e), Ptr("inp", 0), Len(input), "A_OP")
       IN /\ st' = [p.st EXCEPT !.env = DefaultEnv]
          /\ tree' = p.ret
          /\ pc' = IF p.st.crash THEN "crashed"
                   ELSE IF IsNull(p.ret) THEN "done" ELSE "exec"
  /\ UNCHANGED <<input, result, rollVals, rollState>>

\* execute_expr up to its end: the result, or the death of the process.
Evaluate ==
  /\ pc = "exec"
  /\ LET x == execute_expr(tree, rollVals)
     IN /\ x.k # "need"
        /\ pc' = IF x.k = "val" THEN "free"
                 ELSE IF x.k = "crash" THEN "crashed" ELSE "exited"
        /\ result' = IF x.k = "val" THEN x.v ELSE result
  /\ UNCHANGED <<input, st, tree, rollVals, rollState>>

\* execute_roll: execute_expr reaches a roll, whose executor starts.
BeginRoll ==
  /\ pc = "exec"
  /\ LET x == execute_expr(tree, rollVals)
     IN /\ x.k = "need"
        /\ cur' = x.roll
        /\ rolls' = IF RollKind(x.roll) \in {"CHOOSE_HIGH", "CHOOSE_LOW"}
                    THEN [n \in 1..(x.roll.rollMod.constant + 1) |-> Uninit]
                    ELSE [n \in 1..x.roll.dieCount |-> Uninit]
  /\ pc' = "roll"
  /\ i' = 0
  /\ chosen' = 0
  /\ roll' = 0
  /\ rollTotal' = 0
  /\ inner' = "first"
  /\ drawn' = <<>>
  /\ ndraws' = 0
  /\ UNCHANGED <<input, st, tree, result, rollVals>>

\* One iteration of the loop of execute_basic_roll.
BasicDraw ==
  /\ pc = "roll" /\ RollKind(cur) = "BASIC"
  /\ i < cur.dieCount /\ ndraws < MaxDraws
  /\ \E raw \in 0..MaxRaw :
       IF cur.dieSides = 0 THEN
         /\ pc' = "crashed"
         /\ UNCHANGED <<rolls, i, drawn, ndraws>>
       ELSE
         /\ rolls' = [rolls EXCEPT ![i + 1] = Draw(raw, cur.dieSides)]
         /\ drawn' = Append(drawn, <<Draw(raw, cur.dieSides)>>)
         /\ i' = i + 1
         /\ ndraws' = ndraws + 1
         /\ pc' = pc
  /\ UNCHANGED <<input, st, tree, result, rollVals, cur, chosen, roll,
                 rollTotal, inner>>

\* One iteration of the loop of execute_choose_n_roll.
ChooseDraw ==
  /\ pc = "roll" /\ RollKind(cur) \in {"CHOOSE_HIGH", "CHOOSE_LOW"}
  /\ i < cur.dieCount /\ ndraws < MaxDraws
  /\ \E raw \in 0..MaxRaw :
       IF cur.dieSides = 0 THEN
         /\ pc' = "crashed"
         /\ UNCHANGED <<rolls, i, chosen, roll, drawn, ndraws>>
       ELSE
         LET nChoose == cur.rollMod.constant
             r == Draw(raw, cur.dieSides)
         IN /\ roll' = r
            /\ IF chosen < nChoose THEN
                 /\ rolls' = [rolls EXCEPT ![chosen + 1] = r]
                 /\ chosen' = chosen + 1
               ELSE
                 /\ rolls' = qsort([rolls EXCEPT ![nChoose + 1] = r],
                                   cur.rollMod.type)
                 /\ chosen' = chosen
            /\ drawn' = Append(drawn, <<r>>)
            /\ i' = i + 1
            /\ ndraws' = ndraws + 1
            /\ pc' = pc
  /\ UNCHANGED <<input, st, tree, result, rollVals, cur, rollTotal, inner>>

\* The first draw of a die, in execute_reroll_below_roll and
\* execute_exploding_roll.
FirstDraw ==
  /\ pc = "roll" /\ RollKind(cur) \in {"REROLL_BELOW", "KEEP_AND_REROLL_ABOVE"}
  /\ inner = "first" /\ i < cur.dieCount /\ ndraws < MaxDraws
  /\ \E raw \in 0..MaxRaw :
       IF cur.dieSides = 0 THEN
         /\ pc' = "crashed"
         /\ UNCHANGED <<roll, rollTotal, inner, drawn, ndraws>>
       ELSE
         /\ roll' = Draw(raw, cur.dieSides)
         /\ rollTotal' = Draw(raw, cur.dieSides)
         /\ drawn' = Append(drawn, <<Draw(raw, cur.dieSides)>>)
         /\ ndraws' = ndraws + 1
         /\ inner' = "while"
         /\ pc' = pc
  /\ UNCHANGED <<input, st, tree, result, rollVals, cur, i, rolls, chosen>>

\* while (roll <= rerollThresh): the die is drawn again.
RerollAgain ==
  /\ pc = "roll" /\ RollKind(cur) = "REROLL_BELOW"
  /\ inner = "while" /\ RerollCond(roll, cur.rollMod.constant)
  /\ ndraws < MaxDraws
  /\ \E raw \in 0..MaxRaw :
       /\ roll' = Draw(raw, cur.dieSides)
       /\ drawn' = [drawn EXCEPT ![Len(drawn)] =
                      Append(@, Draw(raw, cur.dieSides))]
  /\ ndraws' = ndraws + 1
  /\ UNCHANGED <<input, pc, st, tree, result, rollVals, cur, i, rolls, chosen,
                 rollTotal, inner>>

\* The while loop ends: rolls[i] = roll.
RerollStore ==
  /\ pc = "roll" /\ RollKind(cur) = "REROLL_BELOW"
  /\ inner = "while" /\ ~RerollCond(roll, cur.rollMod.constant)
  /\ rolls' = [rolls EXCEPT ![i + 1] = roll]
  /\ i' = i + 1
  /\ inner' = "first"
  /\ UNCHANGED <<input, pc, st, tree, result, rollVals, cur, chosen, roll,
                 rollTotal, drawn, ndraws>>

\* while (roll >= explodeThresh): one more draw, added to the die's total.
ExplodeAgain ==
  /\ pc = "roll" /\ RollKind(cur) = "KEEP_AND_REROLL_ABOVE"
  /\ inner = "while" /\ ExplodeCond(roll, cur.rollMod.constant)
  /\ ndraws < MaxDraws
  /\ \E raw \in 0..MaxRaw :
       /\ roll' = Draw(raw, cur.dieSides)
       /\ rollTotal' = rollTotal + Draw(raw, cur.dieSides)
       /\ drawn' = [drawn EXCEPT ![Len(drawn)] =
                      Append(@, Draw(raw, cur.dieSides))]
  /\ ndraws' = ndraws + 1
  /\ UNCHANGED <<input, pc, st, tree, result, rollVals, cur, i, rolls, chosen,
                 inner>>

\* The while loop ends: rolls[i] = rollTotal.
ExplodeStore ==
  /\ pc = "roll" /\ RollKind(cur) = "KEEP_AND_REROLL_ABOVE"
  /\ inner = "while" /\ ~ExplodeCond(roll, cur.rollMod.constant)
  /\ rolls' = [rolls EXCEPT ![i + 1] = rollTotal]
  /\ i' = i + 1
  /\ inner' = "first"
  /\ UNCHANGED <<input, pc, st, tree, result, rollVals, cur, chosen, roll,
                 rollTotal, drawn, ndraws>>

\* The executor's loop is over: return sum_up(rolls, ...). A slot that was
\* never written reads as an unspecified value.
RollReturn ==
  /\ pc = "roll" /\ inner = "first" /\ ~(i < cur.dieCount)
  /\ \E g \in UninitVals :
       LET count == IF RollKind(cur) \in {"CHOOSE_HIGH", "CHOOSE_LOW"}
                    THEN cur.rollMod.constant ELSE cur.dieCount
           read == [n \in 1..Len(rolls) |->
                      IF rolls[n] = Uninit THEN g ELSE rolls[n]]
       IN rollVals' = Append(rollVals, sum_up(read, count))
  /\ pc' = "exec"
  /\ UNCHANGED <<input, st, tree, result, cur, i, rolls, chosen, roll,
                 rollTotal, inner, drawn, ndraws>>

\* free_expr_node(tree), after the result is printed.
Free ==
  /\ pc = "free"
  /\ st' = free_expr_node(st, tree)
  /\ pc' = "done"
  /\ UNCHANGED <<input, tree, result, rollVals, rollState>>

Next ==
  \/ Parse
  \/ Evaluate
  \/ BeginRoll
  \/ BasicDraw
  \/ ChooseDraw
  \/ FirstDraw
  \/ RerollAgain
  \/ RerollStore
  \/ ExplodeAgain
  \/ ExplodeStore
  \/ RollReturn
  \/ Free

Spec == Init /\ [][Next]_vars

\* The same program on one family of inputs (with the documentation's
\* examples, which exercise every executor).
SpecParse == InitWith(FuzzInputs \cup Examples) /\ [][Next]_vars
SpecArith == InitWith(ArithInputs \cup Examples) /\ [][Next]_vars
SpecRoll == InitWith(RollInputs \cup Examples) /\ [][Next]_vars
SpecMod == InitWith(ModInputs \cup Examples) /\ [][Next]_vars

(***************************************************************************)
(* Properties.                                                             *)
(***************************************************************************)
\* The value of x o y in C.
ApplyOp(o, x, y) ==
  CASE o = "+" -> x + y
    [] o = "-" -> x - y
    [] o = "*" -> x * y
    [] o = "/" -> Quot(x, y)

IsDigit(c) == c \in DigitChars

\* The run printed a result and freed the tree.
Evaluated == pc = "done" /\ ~IsNull(tree)

\* C1: operators of one precedence level group to the right: "a o1 b o2 c"
\* with o1 and o2 both additive or both multiplicative evaluates to
\* a o1 (b o2 c), whenever it evaluates.
C1_RightAssociative ==
  (/\ Evaluated
   /\ Len(input) = 5
   /\ IsDigit(input[1]) /\ IsDigit(input[3]) /\ IsDigit(input[5])
   /\ \/ {input[2], input[4]} \subseteq AOps
      \/ {input[2], input[4]} \subseteq MOps)
  => result = ApplyOp(input[2], DigitVal(input[1]),
                      ApplyOp(input[4], DigitVal(input[3]), DigitVal(input[5])))

\* "1-2-3" has been evaluated to 2.
C1_Witness ==
  Evaluated /\ input = <<"1", "-", "2", "-", "3">> /\ result = 2

\* C2: multiplicative operators bind tighter than additive ones, and
\* parentheses override this: "a+b*c" is a+(b*c), "a*b+c" is (a*b)+c,
\* "(a o1 b) o2 c" is (a o1 b) o2 c and "a o1 (b o2 c)" is a o1 (b o2 c).
C2_Precedence ==
  /\ (/\ Evaluated
      /\ Len(input) = 5
      /\ IsDigit(input[1]) /\ IsDigit(input[3]) /\ IsDigit(input[5])
      /\ input[2] \in AOps /\ input[4] \in MOps)
     => result = ApplyOp(input[2], DigitVal(input[1]),
                         ApplyOp(input[4], DigitVal(input[3]),
                                 DigitVal(input[5])))
  /\ (/\ Evaluated
      /\ Len(input) = 5
      /\ IsDigit(input[1]) /\ IsDigit(input[3]) /\ IsDigit(input[5])
      /\ input[2] \in MOps /\ input[4] \in AOps)
     => result = ApplyOp(input[4],
                         ApplyOp(input[2], DigitVal(input[1]),
                                 DigitVal(input[3])),
                         DigitVal(input[5]))
  /\ (/\ Evaluated
      /\ Len(input) = 7
      /\ input[1] = "(" /\ input[5] = ")"
      /\ IsDigit(input[2]) /\ IsDigit(input[4]) /\ IsDigit(input[7])
      /\ input[3] \in Ops /\ input[6] \in Ops)
     => result = ApplyOp(input[6],
                         ApplyOp(input[3], DigitVal(input[2]),
                                 DigitVal(input[4])),
                         DigitVal(input[7]))
  /\ (/\ Evaluated
      /\ Len(input) = 7
      /\ input[3] = "(" /\ input[7] = ")"
      /\ IsDigit(input[1]) /\ IsDigit(input[4]) /\ IsDigit(input[6])
      /\ input[2] \in Ops /\ input[5] \in Ops)
     => result = ApplyOp(input[2], DigitVal(input[1]),
                         ApplyOp(input[5], DigitVal(input[4]),
                                 DigitVal(input[6])))

\* "(2+3)*4" has been evaluated to 20.
C2_Witness ==
  Evaluated /\ input = <<"(", "2", "+", "3", ")", "*", "4">> /\ result = 20

\* The parentheses of s nest properly, from nesting depth depth.
RECURSIVE Balanced(_, _)
Balanced(s, depth) ==
  IF s = <<>> THEN depth = 0
  ELSE IF Head(s) = "(" THEN Balanced(Tail(s), depth + 1)
  ELSE IF Head(s) = ")" THEN depth > 0 /\ Balanced(Tail(s), depth - 1)
  ELSE Balanced(Tail(s), depth)

\* C3: every input with unbalanced parentheses fails to parse: parse_expr
\* returns no tree, with MismatchedParentheses reported.
C3_UnbalancedFails ==
  (pc # "parse" /\ ~Balanced(input, 0))
  => /\ pc = "done"
     /\ IsNull(tree)
     /\ "MismatchedParentheses" \in st.errs

\* C4: the parse never kills the process: it ends by returning a tree or a
\* reported failure, and every substring length it computed is non-negative
\* and within its span.
C4_ParseNeverCrashes ==
  pc # "parse"
  => /\ ~st.crash
     /\ ~st.bad
     /\ (IsNull(tree) => st.errs # {})

\* C5: no node is leaked: no node is live once the tree has been freed
\* after a successful parse, nor when parse_expr has returned failure.
C5_NoLeak == pc = "done" => st.live = 0

\* A parse has failed after nodes had been allocated, and none is live.
C5_Witness ==
  /\ pc = "done" /\ IsNull(tree)
  /\ st.nalloc > 1 /\ st.live = 0
  /\ "AllocationFailure" \notin st.errs

\* A roll has been executed to its end: its result is the last of rollVals
\* and drawn holds the values drawn for each of its dice.
RollReturned == pc \in {"exec", "free", "done"} /\ ~IsNull(cur)
LastVal == rollVals[Len(rollVals)]

\* The input is "XdY".
IsBasicRoll ==
  /\ Len(input) = 3
  /\ IsDigit(input[1]) /\ input[2] = "d" /\ IsDigit(input[3])

\* The input is "XdYmZ" for the modifier letter m.
IsModRoll(m) ==
  /\ Len(input) = 5
  /\ IsDigit(input[1]) /\ input[2] = "d" /\ IsDigit(input[3])
  /\ input[4] = m /\ IsDigit(input[5])

RECURSIVE SumOver(_, _)
SumOver(vals, P) ==
  IF P = {} THEN 0
  ELSE LET x == CHOOSE y \in P : TRUE
       IN vals[x] + SumOver(vals, P \ {x})

RECURSIVE SumSeq(_)
SumSeq(s) == IF s = <<>> THEN 0 ELSE Head(s) + SumSeq(Tail(s))

\* The largest (high) or smallest sum of n of the values vals.
BestSum(vals, n, high) ==
  LET sums == {SumOver(vals, P) :
                 P \in {Q \in SUBSET (1..Len(vals)) : Cardinality(Q) = n}}
  IN CHOOSE m \in sums :
       \A x \in sums : IF high THEN m >= x ELSE m <= x

Last(s) == s[Len(s)]

\* C6: "XdYcZ" (resp. "XdYwZ") with X >= Z >= 1 draws X values and gives the
\* sum of the Z largest (resp. smallest) of them, whatever their order.
C6_ChooseSum ==
  \A m \in {"c", "w"} :
    (/\ IsModRoll(m) /\ RollReturned
     /\ DigitVal(input[1]) >= DigitVal(input[5]) /\ DigitVal(input[5]) >= 1)
    => /\ Len(drawn) = DigitVal(input[1])
       /\ \A n \in 1..Len(drawn) : Len(drawn[n]) = 1
       /\ LastVal = BestSum([n \in 1..Len(drawn) |-> drawn[n][1]],
                            DigitVal(input[5]), m = "c")
       /\ pc = "done" => result = LastVal

\* "4d6c2" has drawn 1, 6, 3, 4 and given 10.
C6_Witness ==
  /\ pc = "done" /\ input = <<"4", "d", "6", "c", "2">>
  /\ drawn = <<<<1>>, <<6>>, <<3>>, <<4>>>>
  /\ result = 10

\* C7: "XdYbZ": each of the X dice is drawn until a value above Z comes,
\* which is the die's contribution; the result is their sum.
C7_RerollBelow ==
  (IsModRoll("b") /\ RollReturned)
  => /\ Len(drawn) = DigitVal(input[1])
     /\ \A n \in 1..Len(drawn) :
          /\ Last(drawn[n]) > DigitVal(input[5])
          /\ \A j \in 1..(Len(drawn[n]) - 1) :
               drawn[n][j] <= DigitVal(input[5])
     /\ LastVal = SumSeq([n \in 1..Len(drawn) |-> Last(drawn[n])])
     /\ pc = "done" => result = LastVal

\* "1d6b3" has drawn 2, 2, 5 and given 5.
C7_Witness ==
  /\ pc = "done" /\ input = <<"1", "d", "6", "b", "3">>
  /\ drawn = <<<<2, 2, 5>>>>
  /\ result = 5

\* C8: "XdYvZ": each of the X dice is drawn until a value below Z comes and
\* contributes the sum of all its draws; the result is the sum over the dice.
C8_Exploding ==
  (IsModRoll("v") /\ RollReturned)
  => /\ Len(drawn) = DigitVal(input[1])
     /\ \A n \in 1..Len(drawn) :
          /\ Last(drawn[n]) < DigitVal(input[5])
          /\ \A j \in 1..(Len(drawn[n]) - 1) :
               drawn[n][j] >= DigitVal(input[5])
     /\ LastVal = SumSeq([n \in 1..Len(drawn) |-> SumSeq(drawn[n])])
     /\ pc = "done" => result = LastVal

\* "1d6v6" has drawn 6, 6, 2 and given 14.
C8_Witness ==
  /\ pc = "done" /\ input = <<"1", "d", "6", "v", "6">>
  /\ drawn = <<<<6, 6, 2>>>>
  /\ result = 14

\* C9: every "XdY" that parses is evaluated: the process does not die, and
\* the roll makes exactly X draws, each in 1..Y, and returns their sum,
\* which lies in X..X*Y.
C9_BasicRoll ==
  (IsBasicRoll /\ ~IsNull(tree))
  => /\ pc # "crashed"
     /\ RollReturned =>
          /\ Len(drawn) = DigitVal(input[1])
          /\ \A n \in 1..Len(drawn) :
               /\ Len(drawn[n]) = 1
               /\ drawn[n][1] \in 1..DigitVal(input[3])
          /\ LastVal = SumSeq([n \in 1..Len(drawn) |-> drawn[n][1]])
          /\ LastVal \in DigitVal(input[1])..
                           (DigitVal(input[1]) * DigitVal(input[3]))

\* The span of a roll: no operator, no parenthesis, not a constant.
IsRollSpan(s) ==
  /\ s # <<>>
  /\ \A n \in 1..Len(s) : s[n] \notin Ops \cup {"(", ")"}
  /\ \E n \in 1..Len(s) : ~IsDigit(s[n])

\* The error kind documented for the roll span s: the die count is what
\* precedes the first 'd', the die sides what follows it up to the first
\* modifier letter.
RollError(s) ==
  LET d == strchr(s, "d")
      after == SubSeq(s, d + 2, Len(s))
      m == strpbrk(after, ModChars)
      count == SubSeq(s, 1, d)
      sides == IF m = -1 THEN after ELSE SubSeq(after, 1, m)
  IN IF d = -1 THEN "MissingDelimiter"
     ELSE IF count = <<>> \/ sides = <<>> THEN "EmptyConstant"
     ELSE IF \E c \in Range(count) \cup Range(sides) : ~IsDigit(c)
       THEN "InvalidConstant"
     ELSE "none"

\* The modifier of the roll span s, if it has one, has its constant: the
\* first modifier letter after the 'd' is not the last character.
ModifierHasConstant(s) ==
  LET d == strchr(s, "d")
      after == SubSeq(s, d + 2, Len(s))
      m == strpbrk(after, ModChars)
  IN d = -1 \/ m = -1 \/ m + 1 < Len(after)

\* C10: a malformed roll yields no tree and fails with its own error kind:
\* MissingDelimiter without a 'd', EmptyConstant for an empty die count or
\* die sides, InvalidConstant for a non-digit in them (no malloc failing).
C10_RollErrors ==
  (/\ pc # "parse"
   /\ IsRollSpan(input) /\ ModifierHasConstant(input)
   /\ RollError(input) # "none"
   /\ "AllocationFailure" \notin st.errs)
  => /\ pc = "done"
     /\ IsNull(tree)
     /\ RollError(input) \in st.errs


\* The input is "XdYm..." for a modifier letter m; ModTail is what follows
\* the letter.
HasModTail ==
  /\ Len(input) >= 4
  /\ IsDigit(input[1]) /\ input[2] = "d" /\ IsDigit(input[3])
  /\ input[4] \in ModChars

ModTail == SubSeq(input, 5, Len(input))

\* C11: a modifier is accepted only when what follows its letter is
\* non-empty and all digits: with nothing after the letter the parse fails
\* with MissingModifierConstant, and with any non-digit after the letter
\* the roll fails to parse.
C11_ModifierDigits ==
  (pc # "parse" /\ HasModTail)
  => /\ ModTail = <<>> =>
          IsNull(tree) /\ "MissingModifierConstant" \in st.errs
     /\ (\E c \in Range(ModTail) : ~IsDigit(c)) => IsNull(tree)

\* C12: "XdYcZ" or "XdYwZ" with X < Z draws X values and gives the sum of
\* exactly these: no slot that no draw filled contributes to the result.
C12_ChooseFewer ==
  \A m \in {"c", "w"} :
    (/\ IsModRoll(m) /\ RollReturned
     /\ DigitVal(input[1]) < DigitVal(input[5]))
    => /\ Len(drawn) = DigitVal(input[1])
       /\ LastVal = SumSeq([n \in 1..Len(drawn) |-> drawn[n][1]])

\* The input is "XdYbZ" with X >= 1 and Z >= Y, or "XdYvZ" with X >= 1 and
\* Z <= 1: a roll whose threshold no draw can pass.
PathologicalThreshold ==
  \/ /\ IsModRoll("b") /\ DigitVal(input[1]) >= 1
     /\ DigitVal(input[5]) >= DigitVal(input[3])
  \/ /\ IsModRoll("v") /\ DigitVal(input[1]) >= 1
     /\ DigitVal(input[5]) <= 1

\* C13: a roll with such a threshold loops forever: once its executor has
\* started, the evaluation stays in the loop of the first die, whatever is
\* drawn; it never returns and no cap or error ends it.
C13_LoopsForever ==
  (PathologicalThreshold /\ ~IsNull(cur))
  => /\ pc = "roll"
     /\ i = 0
     /\ inner = "while" =>
          IF RollKind(cur) = "REROLL_BELOW"
          THEN RerollCond(roll, cur.rollMod.constant)
          ELSE ExplodeCond(roll, cur.rollMod.constant)

====
